---- MODULE Spec2Model ----
(***************************************************************************)
(* Model of scripts/replace_emoji.py: the classifier looks_text, the       *)
(* transformer replace_in_text and the directory walker main.              *)
(*                                                                         *)
(* Text is a sequence of Unicode code points (integers); file content is   *)
(* a sequence of bytes; file and directory names are sequences of          *)
(* one-character strings.                                                  *)
(***************************************************************************)
EXTENDS Integers, Sequences, FiniteSets, TLC

VARIABLES
  tIn, tOut, tOut2, tpc,                  \* transformer: input, one pass, two passes
  lName, lBytes, lOpen, lRes, lpc,        \* classifier: path, content, open succeeds, result
  fname, content, content0,               \* walker: file names, file bytes, bytes before the run
  stack, curFiles, pc,                    \* walker: directories to visit, files left in the current one
  scanned, changed, output, exitStatus,   \* walker: counters, stdout lines, process exit status
  classified, accepted, sniffed,          \* history: files given to looks_text / accepted / opened "rb"
  openedRead, decoded, readFailed,        \* history: files opened "r" / read as text / failed to read
  openedWrite, written, writeFailed       \* history: files opened "w" / rewritten / whose write raised

tvars == <<tIn, tOut, tOut2, tpc>>
lvars == <<lName, lBytes, lOpen, lRes, lpc>>
wvars == <<fname, content, content0, stack, curFiles, pc, scanned, changed,
           output, exitStatus, classified, accepted, sniffed, openedRead,
           decoded, readFailed, openedWrite, written, writeFailed>>
vars == <<tvars, lvars, wvars>>

\* ---------------------------------------------------------------- parts not running
\* the values of the variables of a part that a specification does not run
TextIdle == tIn = <<>> /\ tOut = <<>> /\ tOut2 = <<>> /\ tpc = "idle"

NoResult == [res |-> FALSE, opened |-> FALSE]

ClassIdle == lName = <<>> /\ lBytes = <<>> /\ lOpen = FALSE /\ lRes = NoResult /\ lpc = "idle"

WalkerIdle ==
  /\ fname = <<>> /\ content = <<>> /\ content0 = <<>>
  /\ stack = <<>> /\ curFiles = {} /\ pc = "idle"
  /\ scanned = 0 /\ changed = 0 /\ output = <<>> /\ exitStatus = -1
  /\ classified = {} /\ accepted = {} /\ sniffed = {} /\ openedRead = {}
  /\ decoded = {} /\ readFailed = {} /\ openedWrite = {} /\ written = {}
  /\ writeFailed = {}

\* ---------------------------------------------------------------- bounds
\* longest text given to replace_in_text
MaxLen == 3

\* ---------------------------------------------------------------- tables
VS16 == 65039          \* U+FE0F VARIATION SELECTOR-16
LBRACKET == 91         \* "["
RBRACKET == 93         \* "]"

MAP ==
  << <<<<91, 79, 75, 93>>, <<91, 79, 75, 93>>>>,   \* "[OK]"
     <<<<91, 88, 93>>, <<91, 88, 93>>>>,   \* "[X]"
     <<<<91, 87, 65, 82, 78, 93>>, <<91, 87, 65, 82, 78, 93>>>>,   \* "[WARN]"
     <<<<91, 76, 65, 85, 78, 67, 72, 93>>, <<91, 76, 65, 85, 78, 67, 72, 93>>>>,   \* "[LAUNCH]"
     <<<<91, 68, 79, 78, 69, 93>>, <<91, 68, 79, 78, 69, 93>>>>,   \* "[DONE]"
     <<<<91, 76, 73, 83, 84, 93>>, <<91, 76, 73, 83, 84, 93>>>>,   \* "[LIST]"
     <<<<91, 84, 79, 79, 76, 93>>, <<91, 84, 79, 79, 76, 93>>>>,   \* "[TOOL]"
     <<<<91, 73, 78, 70, 79, 93>>, <<91, 73, 78, 70, 79, 93>>>>,   \* "[INFO]"
     <<<<91, 87, 69, 66, 93>>, <<91, 87, 69, 66, 93>>>>,   \* "[WEB]"
     <<<<91, 71, 79, 65, 76, 93>>, <<91, 71, 79, 65, 76, 93>>>>,   \* "[GOAL]"
     <<<<91, 66, 85, 73, 76, 68, 93>>, <<91, 66, 85, 73, 76, 68, 93>>>>,   \* "[BUILD]"
     <<<<91, 80, 67, 93>>, <<91, 80, 67, 93>>>>,   \* "[PC]"
     <<<<91, 68, 69, 83, 73, 71, 78, 93>>, <<91, 68, 69, 83, 73, 71, 78, 93>>>>,   \* "[DESIGN]"
     <<<<91, 79, 70, 70, 73, 67, 69, 93>>, <<91, 79, 70, 70, 73, 67, 69, 93>>>>,   \* "[OFFICE]"
     <<<<91, 36, 93>>, <<91, 36, 93>>>>,   \* "[$]"
     <<<<91, 84, 65, 75, 69, 93>>, <<91, 84, 65, 75, 69, 93>>>>,   \* "[TAKE]"
     <<<<91, 84, 69, 83, 84, 93>>, <<91, 84, 69, 83, 84, 93>>>>,   \* "[TEST]"
     <<<<91, 71, 65, 77, 69, 93>>, <<91, 71, 65, 77, 69, 93>>>>,   \* "[GAME]"
     <<<<91, 68, 79, 67, 83, 93>>, <<91, 68, 79, 67, 83, 93>>>>,   \* "[DOCS]"
     <<<<91, 70, 73, 82, 69, 93>>, <<91, 70, 73, 82, 69, 93>>>>,   \* "[FIRE]"
     <<<<91, 84, 79, 79, 76, 83, 93>>, <<91, 84, 79, 79, 76, 83, 93>>>>,   \* "[TOOLS]"
     <<<<42>>, <<42>>>>,   \* "*"
     <<<<91, 77, 65, 80, 93>>, <<91, 77, 65, 80, 93>>>>,   \* "[MAP]"
     <<<<91, 66, 79, 79, 75, 93>>, <<91, 66, 79, 79, 75, 93>>>>,   \* "[BOOK]"
     <<<<91, 67, 76, 69, 65, 78, 93>>, <<91, 67, 76, 69, 65, 78, 93>>>>,   \* "[CLEAN]"
     <<<<91, 70, 73, 78, 68, 93>>, <<91, 70, 73, 78, 68, 93>>>>,   \* "[FIND]"
     <<<<91, 73, 68, 69, 65, 93>>, <<91, 73, 68, 69, 65, 93>>>>,   \* "[IDEA]"
     <<<<91, 70, 79, 76, 68, 69, 82, 93>>, <<91, 70, 79, 76, 68, 69, 82, 93>>>>,   \* "[FOLDER]"
     <<<<91, 87, 65, 73, 84, 93>>, <<91, 87, 65, 73, 84, 93>>>>,   \* "[WAIT]"
     <<<<91, 65, 76, 69, 82, 84, 93>>, <<91, 65, 76, 69, 82, 84, 93>>>>,   \* "[ALERT]"
     <<<<91, 66, 76, 79, 67, 75, 93>>, <<91, 66, 76, 79, 67, 75, 93>>>>,   \* "[BLOCK]"
     <<<<91, 83, 84, 65, 84, 83, 93>>, <<91, 83, 84, 65, 84, 83, 93>>>>,   \* "[STATS]"
     <<<<91, 80, 73, 78, 93>>, <<91, 80, 73, 78, 93>>>>,   \* "[PIN]"
     <<<<91, 66, 82, 65, 73, 78, 93>>, <<91, 66, 82, 65, 73, 78, 93>>>>,   \* "[BRAIN]"
     <<<<91, 82, 79, 76, 69, 83, 93>>, <<91, 82, 79, 76, 69, 83, 93>>>>,   \* "[ROLES]"
     <<<<91, 66, 85, 71, 93>>, <<91, 66, 85, 71, 93>>>>,   \* "[BUG]"
     <<<<91, 75, 69, 89, 93>>, <<91, 75, 69, 89, 93>>>>,   \* "[KEY]"
     <<<<91, 87, 65, 86, 69, 93>>, <<91, 87, 65, 86, 69, 93>>>>,   \* "[WAVE]"
     <<<<91, 73, 78, 66, 79, 88, 93>>, <<91, 73, 78, 66, 79, 88, 93>>>>,   \* "[INBOX]"
     <<<<91, 80, 75, 71, 93>>, <<91, 80, 75, 71, 93>>>>,   \* "[PKG]"
     <<<<91, 83, 84, 79, 80, 93>>, <<91, 83, 84, 79, 80, 93>>>>,   \* "[STOP]"
     <<<<91, 76, 79, 67, 75, 93>>, <<91, 76, 79, 67, 75, 93>>>>,   \* "[LOCK]"
     <<<<91, 70, 82, 69, 69, 93>>, <<91, 70, 82, 69, 69, 93>>>>,   \* "[FREE]"
     <<<<91, 70, 65, 83, 84, 93>>, <<91, 70, 65, 83, 84, 93>>>>,   \* "[FAST]"
     <<<<91, 49, 50, 51, 93>>, <<91, 49, 50, 51, 93>>>>,   \* "[123]"
     <<<<91, 36, 36, 93>>, <<91, 36, 36, 93>>>>,   \* "[$$]"
     <<<<91, 84, 65, 71, 93>>, <<91, 84, 65, 71, 93>>>>,   \* "[TAG]"
     <<<<91, 65, 68, 77, 73, 78, 93>>, <<91, 65, 68, 77, 73, 78, 93>>>>,   \* "[ADMIN]"
     <<<<45, 62>>, <<45, 62>>>>,   \* "->"
     <<<<91, 86, 73, 69, 87, 93>>, <<91, 86, 73, 69, 87, 93>>>>,   \* "[VIEW]"
     <<<<60, 60>>, <<60, 60>>>>,   \* "<<"
     <<<<91, 87, 73, 80, 93>>, <<91, 87, 73, 80, 93>>>>,   \* "[WIP]"
     <<<<60, 45, 62>>, <<60, 45, 62>>>>,   \* "<->"
     <<<<91, 79, 85, 84, 93>>, <<91, 79, 85, 84, 93>>>>,   \* "[OUT]"
     <<<<43>>, <<43>>>>,   \* "+"
     <<<<91, 67, 65, 77, 93>>, <<91, 67, 65, 77, 93>>>>,   \* "[CAM]"
     <<<<91, 83, 72, 73, 69, 76, 68, 93>>, <<91, 83, 72, 73, 69, 76, 68, 93>>>>,   \* "[SHIELD]"
     <<<<91, 70, 76, 65, 71, 93>>, <<91, 70, 76, 65, 71, 93>>>>,   \* "[FLAG]"
     <<<<91, 83, 69, 84, 93>>, <<91, 83, 69, 84, 93>>>>,   \* "[SET]"
     <<<<91, 70, 73, 76, 69, 83, 93>>, <<91, 70, 73, 76, 69, 83, 93>>>>,   \* "[FILES]"
     <<<<91, 68, 79, 67, 93>>, <<91, 68, 79, 67, 93>>>>,   \* "[DOC]"
     <<<<84, 77>>, <<84, 77>>>>,   \* "TM"
     <<<<91, 85, 80, 93>>, <<91, 85, 80, 93>>>>,   \* "[UP]"
     <<<<91, 72, 65, 78, 68, 83, 72, 65, 75, 69, 93>>, <<91, 72, 65, 78, 68, 83, 72, 65, 75, 69, 93>>>>,   \* "[HANDSHAKE]"
     <<<<91, 65, 78, 84, 69, 78, 78, 65, 93>>, <<91, 65, 78, 84, 69, 78, 78, 65, 93>>>>,   \* "[ANTENNA]"
     <<<<91, 76, 73, 78, 75, 93>>, <<91, 76, 73, 78, 75, 93>>>>,   \* "[LINK]"
     <<<<91, 84, 69, 65, 77, 93>>, <<91, 84, 69, 65, 77, 93>>>>,   \* "[TEAM]"
     <<<<91, 85, 83, 69, 82, 93>>, <<91, 85, 83, 69, 82, 93>>>>,   \* "[USER]"
     <<<<91, 66, 65, 78, 75, 93>>, <<91, 66, 65, 78, 75, 93>>>>,   \* "[BANK]"
     <<<<91, 70, 85, 69, 76, 93>>, <<91, 70, 85, 69, 76, 93>>>>,   \* "[FUEL]"
     <<<<91, 87, 79, 77, 65, 78, 93>>, <<91, 87, 79, 77, 65, 78, 93>>>>,   \* "[WOMAN]"
     <<<<91, 77, 65, 78, 93>>, <<91, 77, 65, 78, 93>>>>,   \* "[MAN]"
     <<<<91, 80, 73, 67, 75, 93>>, <<91, 80, 73, 67, 75, 93>>>>,   \* "[PICK]"
     <<<<91, 68, 79, 87, 78, 93>>, <<91, 68, 79, 87, 78, 93>>>>,   \* "[DOWN]"
     <<<<91, 87, 82, 73, 84, 69, 93>>, <<91, 87, 82, 73, 84, 69, 93>>>>,   \* "[WRITE]"
     <<<<91, 86, 79, 84, 69, 93>>, <<91, 86, 79, 84, 69, 93>>>>,   \* "[VOTE]"
     <<<<91, 66, 79, 79, 77, 93>>, <<91, 66, 79, 79, 77, 93>>>>,   \* "[BOOM]"
     <<<<91, 77, 65, 73, 76, 93>>, <<91, 77, 65, 73, 76, 93>>>>,   \* "[MAIL]"
     <<<<91, 71, 79, 71, 71, 76, 69, 83, 93>>, <<91, 71, 79, 71, 71, 76, 69, 83, 93>>>>,   \* "[GOGGLES]"
     <<<<91, 72, 65, 77, 77, 69, 82, 93>>, <<91, 72, 65, 77, 77, 69, 82, 93>>>>,   \* "[HAMMER]"
     <<<<91, 66, 79, 84, 93>>, <<91, 66, 79, 84, 93>>>>,   \* "[BOT]"
     <<<<91, 68, 73, 83, 75, 93>>, <<91, 68, 73, 83, 75, 93>>>>,   \* "[DISK]"
     <<<<91, 63, 93>>, <<91, 63, 93>>>>,   \* "[?]"
     <<<<60>>, <<60>>>>,   \* "<"
     <<<<62>>, <<62>>>>,   \* ">"
     <<<<62, 62>>, <<62, 62>>>>,   \* ">>"
     <<<<91, 83, 67, 65, 76, 69, 83, 93>>, <<91, 83, 67, 65, 76, 69, 83, 93>>>>,   \* "[SCALES]"
     <<<<91, 83, 87, 79, 82, 68, 83, 93>>, <<91, 83, 87, 79, 82, 68, 83, 93>>>>,   \* "[SWORDS]"
     <<<<91, 84, 73, 77, 69, 93>>, <<91, 84, 73, 77, 69, 93>>>>,   \* "[TIME]"
     <<<<91, 66, 79, 79, 75, 77, 65, 82, 75, 93>>, <<91, 66, 79, 79, 75, 77, 65, 82, 75, 93>>>>,   \* "[BOOKMARK]"
     <<<<124, 124>>, <<124, 124>>>>,   \* "||"
     <<<<91, 80, 72, 79, 78, 69, 93>>, <<91, 80, 72, 79, 78, 69, 93>>>>,   \* "[PHONE]"
     <<<<91, 67, 82, 89, 83, 84, 65, 76, 93>>, <<91, 67, 82, 89, 83, 84, 65, 76, 93>>>>,   \* "[CRYSTAL]"
     <<<<91, 67, 79, 85, 82, 84, 93>>, <<91, 67, 79, 85, 82, 84, 93>>>>,   \* "[COURT]"
     <<<<91, 84, 82, 79, 80, 72, 89, 93>>, <<91, 84, 82, 79, 80, 72, 89, 93>>>>,   \* "[TROPHY]"
     <<<<91, 80, 76, 85, 71, 93>>, <<91, 80, 76, 85, 71, 93>>>>,   \* "[PLUG]"
     <<<<91, 67, 65, 82, 68, 93>>, <<91, 67, 65, 82, 68, 93>>>>,   \* "[CARD]"
     <<<<91, 83, 80, 65, 82, 75, 93>>, <<91, 83, 80, 65, 82, 75, 93>>>>,   \* "[SPARK]"
     <<<<91, 65, 76, 65, 82, 77, 93>>, <<91, 65, 76, 65, 82, 77, 93>>>>,   \* "[ALARM]"
     <<<<91, 67, 72, 65, 84, 93>>, <<91, 67, 72, 65, 84, 93>>>>,   \* "[CHAT]"
     <<<<91, 49, 48, 93>>, <<91, 49, 48, 93>>>>,   \* "[10]"
     <<<<91, 80, 65, 93>>, <<91, 80, 65, 93>>>>,   \* "[PA]"
     <<<<91, 74, 79, 75, 69, 82, 93>>, <<91, 74, 79, 75, 69, 82, 93>>>>,   \* "[JOKER]"
     <<<<91, 76, 73, 71, 72, 84, 83, 93>>, <<91, 76, 73, 71, 72, 84, 83, 93>>>>,   \* "[LIGHTS]"
     <<<<91, 80, 85, 90, 90, 76, 69, 93>>, <<91, 80, 85, 90, 90, 76, 69, 93>>>>,   \* "[PUZZLE]"
     <<<<91, 83, 72, 85, 70, 70, 76, 69, 93>>, <<91, 83, 72, 85, 70, 70, 76, 69, 93>>>>,   \* "[SHUFFLE]"
     <<<<91, 82, 69, 80, 69, 65, 84, 93>>, <<91, 82, 69, 80, 69, 65, 84, 93>>>>,   \* "[REPEAT]"
     <<<<91, 68, 78, 65, 93>>, <<91, 68, 78, 65, 93>>>>,   \* "[DNA]"
     <<<<91, 67, 79, 77, 80, 65, 83, 83, 93>>, <<91, 67, 79, 77, 80, 65, 83, 83, 93>>>>,   \* "[COMPASS]"
     <<<<91, 84, 69, 76, 69, 83, 67, 79, 80, 69, 93>>, <<91, 84, 69, 76, 69, 83, 67, 79, 80, 69, 93>>>>,   \* "[TELESCOPE]"
     <<<<111>>, <<111>>>>,   \* "o"
     <<<<91, 84, 73, 77, 69, 82, 93>>, <<91, 84, 73, 77, 69, 82, 93>>>>,   \* "[TIMER]"
     <<<<91, 80, 69, 78, 93>>, <<91, 80, 69, 78, 93>>>>,   \* "[PEN]"
     <<<<91, 84, 82, 65, 83, 72, 93>>, <<91, 84, 82, 65, 83, 72, 93>>>>,   \* "[TRASH]"
     <<<<91, 65, 66, 67, 93>>, <<91, 65, 66, 67, 93>>>>,   \* "[ABC]"
     <<<<91, 67, 79, 73, 78, 93>>, <<91, 67, 79, 73, 78, 93>>>>,   \* "[COIN]"
     <<<<91, 70, 65, 67, 84, 79, 82, 89, 93>>, <<91, 70, 65, 67, 84, 79, 82, 89, 93>>>>,   \* "[FACTORY]"
     <<<<91, 78, 69, 87, 93>>, <<91, 78, 69, 87, 93>>>>,   \* "[NEW]"
     <<<<91, 66, 82, 73, 67, 75, 93>>, <<91, 66, 82, 73, 67, 75, 93>>>>,   \* "[BRICK]"
     <<<<91, 83, 65, 84, 93>>, <<91, 83, 65, 84, 93>>>>,   \* "[SAT]"
     <<<<91, 69, 65, 82, 84, 72, 93>>, <<91, 69, 65, 82, 84, 72, 93>>>>,   \* "[EARTH]"
     <<<<91, 66, 82, 73, 68, 71, 69, 93>>, <<91, 66, 82, 73, 68, 71, 69, 93>>>>,   \* "[BRIDGE]"
     <<<<91, 70, 88, 93>>, <<91, 70, 88, 93>>>>,   \* "[FX]"
     <<<<91, 68, 73, 67, 69, 93>>, <<91, 68, 73, 67, 69, 93>>>>,   \* "[DICE]"
     <<<<91, 77, 69, 78, 85, 93>>, <<91, 77, 69, 78, 85, 93>>>>,   \* "[MENU]"
     <<<<126>>, <<126>>>>,   \* "~"
     <<<<91, 85, 78, 76, 79, 67, 75, 93>>, <<91, 85, 78, 76, 79, 67, 75, 93>>>>,   \* "[UNLOCK]"
     <<<<91, 83, 75, 85, 76, 76, 93>>, <<91, 83, 75, 85, 76, 76, 93>>>>,   \* "[SKULL]"
     <<<<91, 83, 85, 78, 93>>, <<91, 83, 85, 78, 93>>>>,   \* "[SUN]"
     <<<<91, 77, 79, 79, 78, 93>>, <<91, 77, 79, 79, 78, 93>>>>,   \* "[MOON]"
     <<<<91, 79, 85, 84, 66, 79, 88, 93>>, <<91, 79, 85, 84, 66, 79, 88, 93>>>>,   \* "[OUTBOX]"
     <<<<91, 83, 72, 82, 85, 71, 93>>, <<91, 83, 72, 82, 85, 71, 93>>>>,   \* "[SHRUG]"
     <<<<60, 45>>, <<60, 45>>>>,   \* "<-"
     <<<<91, 72, 79, 77, 69, 93>>, <<91, 72, 79, 77, 69, 93>>>>,   \* "[HOME]"
     <<<<91, 32, 93>>, <<91, 32, 93>>>>,   \* "[ ]"
     <<<<91, 71, 82, 69, 69, 78, 93>>, <<91, 71, 82, 69, 69, 78, 93>>>>,   \* "[GREEN]"
     <<<<91, 66, 65, 78, 68, 65, 71, 69, 93>>, <<91, 66, 65, 78, 68, 65, 71, 69, 93>>>>,   \* "[BANDAGE]"
     <<<<91, 66, 76, 85, 69, 93>>, <<91, 66, 76, 85, 69, 93>>>>,   \* "[BLUE]"
     <<<<91, 73, 68, 93>>, <<91, 73, 68, 93>>>> >>   \* "[ID]"

TEXT_EXTS ==
  { <<".", "b", "a", "s", "h">>,
    <<".", "c">>,
    <<".", "c", "c">>,
    <<".", "c", "o", "n", "f">>,
    <<".", "c", "p", "p">>,
    <<".", "c", "s", "s">>,
    <<".", "c", "s", "v">>,
    <<".", "f", "i", "s", "h">>,
    <<".", "g", "o">>,
    <<".", "h">>,
    <<".", "h", "t", "m", "l">>,
    <<".", "i", "n", "i">>,
    <<".", "j", "a", "v", "a">>,
    <<".", "j", "s">>,
    <<".", "j", "s", "o", "n">>,
    <<".", "j", "s", "o", "n", "c">>,
    <<".", "j", "s", "x">>,
    <<".", "k", "t">>,
    <<".", "l", "e", "s", "s">>,
    <<".", "m">>,
    <<".", "m", "d">>,
    <<".", "m", "m">>,
    <<".", "p", "y">>,
    <<".", "r", "b">>,
    <<".", "r", "s">>,
    <<".", "s", "a", "s", "s">>,
    <<".", "s", "c", "s", "s">>,
    <<".", "s", "h">>,
    <<".", "s", "v", "e", "l", "t", "e">>,
    <<".", "s", "w", "i", "f", "t">>,
    <<".", "t", "o", "m", "l">>,
    <<".", "t", "s">>,
    <<".", "t", "s", "x">>,
    <<".", "t", "x", "t">>,
    <<".", "y", "a", "m", "l">>,
    <<".", "y", "m", "l">>,
    <<".", "z", "s", "h">> }

bin_exts ==
  { <<".", "g", "i", "f">>,
    <<".", "i", "c", "o">>,
    <<".", "j", "p", "e", "g">>,
    <<".", "j", "p", "g">>,
    <<".", "m", "p", "3">>,
    <<".", "m", "p", "4">>,
    <<".", "o", "t", "f">>,
    <<".", "p", "d", "f">>,
    <<".", "p", "n", "g">>,
    <<".", "t", "t", "f">>,
    <<".", "w", "e", "b", "p">>,
    <<".", "w", "o", "f", "f">>,
    <<".", "w", "o", "f", "f", "2">> }

EXCLUDE_DIRS ==
  { <<".", "g", "i", "t">>,
    <<".", "n", "e", "x", "t">>,
    <<".", "s", "v", "e", "l", "t", "e", "-", "k", "i", "t">>,
    <<".", "v", "e", "n", "v">>,
    <<"b", "u", "i", "l", "d">>,
    <<"c", "o", "v", "e", "r", "a", "g", "e">>,
    <<"d", "i", "s", "t">>,
    <<"n", "o", "d", "e", "_", "m", "o", "d", "u", "l", "e", "s">>,
    <<"o", "u", "t">>,
    <<"t", "a", "r", "g", "e", "t">>,
    <<"t", "m", "p">>,
    <<"v", "e", "n", "v">> }

\* the text selector U+FE0E in the place of U+FE0F
REMOVE_CHARS_textSelector == {65038}

REMOVE_CHARS == {VS16}

\* unicodedata.name restricted to the code points the model's texts contain;
\* NoName stands for the ValueError of a code point without a name
NoName == <<-1>>

UnicodeName(c) ==
  CASE c = 128640 -> <<82, 79, 67, 75, 69, 84>>                                   \* ROCKET
    [] c = 128231 -> <<69, 45, 77, 65, 73, 76, 32, 83, 89, 77, 66, 79, 76>>     \* E-MAIL SYMBOL
    [] c = 91 -> <<76, 69, 70, 84, 32, 83, 81, 85, 65, 82, 69, 32, 66, 82, 65, 67, 75, 69, 84>>       \* LEFT SQUARE BRACKET
    [] c = 93 -> <<82, 73, 71, 72, 84, 32, 83, 81, 85, 65, 82, 69, 32, 66, 82, 65, 67, 75, 69, 84>>   \* RIGHT SQUARE BRACKET
    [] c = 120 -> <<76, 65, 84, 73, 78, 32, 83, 77, 65, 76, 76, 32, 76, 69, 84, 84, 69, 82, 32, 88>>  \* LATIN SMALL LETTER X
    [] c = 111 -> <<76, 65, 84, 73, 78, 32, 83, 77, 65, 76, 76, 32, 76, 69, 84, 84, 69, 82, 32, 79>>  \* LATIN SMALL LETTER O
    [] c = 45 -> <<72, 89, 80, 72, 69, 78, 45, 77, 73, 78, 85, 83>>                                   \* HYPHEN-MINUS
    [] c = 62 -> <<71, 82, 69, 65, 84, 69, 82, 45, 84, 72, 65, 78, 32, 83, 73, 71, 78>>               \* GREATER-THAN SIGN
    [] OTHER -> NoName

\* ---------------------------------------------------------------- str helpers
Min(a, b) == IF a <= b THEN a ELSE b

\* the element of a one-element set
The(S) == CHOOSE x \in S : TRUE

\* s[i..] of a sequence, 1-based
Drop(s, n) == SubSeq(s, n + 1, Len(s))

\* str.startswith at the front of s
StartsWith(s, k) == Len(k) <= Len(s) /\ SubSeq(s, 1, Len(k)) = k

\* `k in text' for strings
Contains(s, k) == \E i \in 0..(Len(s) - Len(k)) : SubSeq(s, i + 1, i + Len(k)) = k

\* str.replace(k, v): left-to-right, non-overlapping; k = "" is not modelled
RECURSIVE StrReplace(_, _, _)
StrReplace(s, k, v) ==
  IF Len(s) < Len(k) THEN s
  ELSE IF StartsWith(s, k) THEN v \o StrReplace(Drop(s, Len(k)), k, v)
  ELSE <<Head(s)>> \o StrReplace(Tail(s), k, v)

\* str.isalnum / str.upper / str.isspace on the ASCII characters of a name
IsAlnum(c) == (48 <= c /\ c <= 57) \/ (65 <= c /\ c <= 90) \/ (97 <= c /\ c <= 122)
Upper(c) == IF 97 <= c /\ c <= 122 THEN c - 32 ELSE c
IsSpace(c) == c \in {9, 10, 11, 12, 13, 32}

\* name.split()[0]
RECURSIVE TakeWord(_)
TakeWord(s) ==
  IF s = <<>> \/ IsSpace(Head(s)) THEN <<>> ELSE <<Head(s)>> \o TakeWord(Tail(s))

RECURSIVE FirstWord(_)
FirstWord(s) ==
  IF s # <<>> /\ IsSpace(Head(s)) THEN FirstWord(Tail(s)) ELSE TakeWord(s)

\* ''.join(c for c in token if c.isalnum()).upper()
RECURSIVE AlnumUpper(_)
AlnumUpper(s) ==
  IF s = <<>> THEN <<>>
  ELSE (IF IsAlnum(Head(s)) THEN <<Upper(Head(s))>> ELSE <<>>) \o AlnumUpper(Tail(s))

SYM == <<83, 89, 77>>    \* "SYM"

\* ---------------------------------------------------------------- replace_in_text
\* the token keeps the characters of the first word that are not alphanumeric
fallback_unfiltered(ch) ==
  LET name == UnicodeName(ch) IN
  IF name = NoName THEN <<ch>>
  ELSE LET token == FirstWord(name) IN
       <<LBRACKET>> \o (IF token = <<>> THEN SYM ELSE token) \o <<RBRACKET>>

fallback(ch) ==
  LET name == UnicodeName(ch) IN
  IF name = NoName THEN <<ch>>
  ELSE LET token == AlnumUpper(FirstWord(name)) IN
       <<LBRACKET>> \o (IF token = <<>> THEN SYM ELSE token) \o <<RBRACKET>>

\* the arrows range starts at 0x21 instead of 0x2190
IsPictographic_lowArrows(code) ==
  \/ 126976 <= code /\ code <= 129791
  \/ 9728 <= code /\ code <= 10175
  \/ 8960 <= code /\ code <= 9215
  \/ 33 <= code /\ code <= 8703
  \/ code \in {8482, 8505}

IsPictographic(code) ==
  \/ 126976 <= code /\ code <= 129791   \* 0x1F000..0x1FAFF
  \/ 9728 <= code /\ code <= 10175      \* 0x2600..0x27BF
  \/ 8960 <= code /\ code <= 9215       \* 0x2300..0x23FF
  \/ 8592 <= code /\ code <= 8703       \* 0x2190..0x21FF
  \/ code \in {8482, 8505}              \* 0x2122, 0x2139

\* `ch in MAP' and MAP[ch] for a one-character string
InMap(ch) == \E i \in DOMAIN MAP : MAP[i][1] = <<ch>>
MapGet(ch) == MAP[CHOOSE i \in DOMAIN MAP : MAP[i][1] = <<ch>>][2]

\* for rc in REMOVE_CHARS: text = text.replace(rc, "")
RECURSIVE RemovePass(_)
RemovePass(text) ==
  IF text = <<>> THEN <<>>
  ELSE (IF Head(text) \in REMOVE_CHARS THEN <<>> ELSE <<Head(text)>>) \o RemovePass(Tail(text))

\* if k in text: text = text.replace(k, v), for entry i of MAP
MapEntry(text, i) ==
  IF Contains(text, MAP[i][1]) THEN StrReplace(text, MAP[i][1], MAP[i][2]) ELSE text

\* for k, v in MAP.items(): ..., for the entries lo..hi in the order of the table
\* The entries are applied one after the other; the recursion halves the
\* range, and the text between the two halves is bound as a value.
RECURSIVE MapPass(_, _, _)
MapPass(text, lo, hi) ==
  IF lo > hi THEN text
  ELSE IF lo = hi THEN MapEntry(text, lo)
  ELSE The({MapPass(t, ((lo + hi) \div 2) + 1, hi) : t \in {MapPass(text, lo, (lo + hi) \div 2)}})

\* the fallback branch falls through to the branch that keeps the character
EmitChar_fallthrough(ch) ==
  IF InMap(ch) THEN MapGet(ch)
  ELSE IF ch \in REMOVE_CHARS THEN <<>>
  ELSE IF IsPictographic(ch) THEN fallback(ch) \o <<ch>>
  ELSE <<ch>>

\* one iteration of the loop over the characters
EmitChar(ch) ==
  IF InMap(ch) THEN MapGet(ch)
  ELSE IF ch \in REMOVE_CHARS THEN <<>>
  ELSE IF IsPictographic(ch) THEN fallback(ch)
  ELSE <<ch>>

RECURSIVE CharPass(_)
CharPass(text) ==
  IF text = <<>> THEN <<>> ELSE EmitChar(Head(text)) \o CharPass(Tail(text))

replace_in_text(text) ==
  IF text = <<>> THEN text
  ELSE The({CharPass(mapped) :
              mapped \in {MapPass(removed, 1, Len(MAP)) : removed \in {RemovePass(text)}}})

\* ---------------------------------------------------------------- transformer runs
\* U+FE0F, U+1F680 ROCKET, U+1F4E7 E-MAIL SYMBOL, U+1F02C (no name),
\* "o" and ">" (one-character keys of MAP), "-" ("->" is a key), "x"
Alphabet == {VS16, 128640, 128231, 127020, 111, 62, 45, 120}

Texts == UNION {[1..n -> Alphabet] : n \in 0..MaxLen}

InitT ==
  /\ ClassIdle
  /\ WalkerIdle
  /\ tIn \in Texts
  /\ tOut = <<>>
  /\ tOut2 = <<>>
  /\ tpc = "start"

Apply1 ==
  /\ tpc = "start"
  /\ tOut' = replace_in_text(tIn)
  /\ tpc' = "once"
  /\ UNCHANGED <<tIn, tOut2, lvars, wvars>>

Apply2 ==
  /\ tpc = "once"
  /\ tOut2' = replace_in_text(tOut)
  /\ tpc' = "twice"
  /\ UNCHANGED <<tIn, tOut, lvars, wvars>>

\* ---------------------------------------------------------------- looks_text
\* str.lower on the characters of a file name
LowerChar(c) ==
  CASE c = "A" -> "a" [] c = "B" -> "b" [] c = "C" -> "c" [] c = "D" -> "d"
    [] c = "E" -> "e" [] c = "F" -> "f" [] c = "G" -> "g" [] c = "H" -> "h"
    [] c = "I" -> "i" [] c = "J" -> "j" [] c = "K" -> "k" [] c = "L" -> "l"
    [] c = "M" -> "m" [] c = "N" -> "n" [] c = "O" -> "o" [] c = "P" -> "p"
    [] c = "Q" -> "q" [] c = "R" -> "r" [] c = "S" -> "s" [] c = "T" -> "t"
    [] c = "U" -> "u" [] c = "V" -> "v" [] c = "W" -> "w" [] c = "X" -> "x"
    [] c = "Y" -> "y" [] c = "Z" -> "z" [] OTHER -> c

Lower(s) == [i \in 1..Len(s) |-> LowerChar(s[i])]

\* os.path.splitext(path)[1] of a path whose last component is p: the part
\* from the last dot on, unless only dots precede that dot
splitext(p) ==
  LET dots == {i \in 1..Len(p) : p[i] = "."} IN
  IF dots = {} THEN <<>>
  ELSE LET dotIndex == CHOOSE i \in dots : \A j \in dots : j <= i IN
       IF \E j \in 1..(dotIndex - 1) : p[j] # "." THEN SubSeq(p, dotIndex, Len(p))
       ELSE <<>>

\* f.read(2048)
SNIFF_LEN == 2048

ReadPrefix(bytes, n) == SubSeq(bytes, 1, Min(n, Len(bytes)))

HasNul(chunk) == \E i \in 1..Len(chunk) : chunk[i] = 0

\* the content is sniffed before the extension lists are consulted
looks_text_sniffFirst(path, bytes, ioOk) ==
  LET ext == Lower(splitext(path)) IN
  IF ~ioOk \/ HasNul(ReadPrefix(bytes, SNIFF_LEN)) THEN [res |-> FALSE, opened |-> TRUE]
  ELSE IF ext \in TEXT_EXTS THEN [res |-> TRUE, opened |-> TRUE]
  ELSE IF ext \in bin_exts THEN [res |-> FALSE, opened |-> TRUE]
  ELSE [res |-> TRUE, opened |-> TRUE]

\* the extension is compared without lower()
looks_text_caseSensitive(path, bytes, ioOk) ==
  LET ext == splitext(path) IN
  IF ext \in TEXT_EXTS THEN [res |-> TRUE, opened |-> FALSE]
  ELSE IF ext \in bin_exts THEN [res |-> FALSE, opened |-> FALSE]
  ELSE IF ~ioOk THEN [res |-> FALSE, opened |-> TRUE]
  ELSE [res |-> ~HasNul(ReadPrefix(bytes, SNIFF_LEN)), opened |-> TRUE]

\* ioOk: open(path, "rb") and the read succeed.  res is the returned
\* boolean, opened tells whether the file was opened for sniffing
looks_text(path, bytes, ioOk) ==
  LET ext == Lower(splitext(path)) IN
  IF ext \in TEXT_EXTS THEN [res |-> TRUE, opened |-> FALSE]
  ELSE IF ext \in bin_exts THEN [res |-> FALSE, opened |-> FALSE]
  ELSE IF ~ioOk THEN [res |-> FALSE, opened |-> TRUE]
  ELSE [res |-> ~HasNul(ReadPrefix(bytes, SNIFF_LEN)), opened |-> TRUE]

\* ---------------------------------------------------------------- classifier runs
LNames ==
  { <<"a", ".", "m", "d">>, <<"a", ".", "M", "D">>, <<"a", ".", "p", "n", "g">>,
    <<"a", ".", "P", "n", "G">>, <<"a", ".", "d", "a", "t">>, <<"a">>,
    <<".", "p", "n", "g">>, <<".", "m", "d">>, <<"a", ".", "b", ".", "t", "x", "t">>,
    <<"a", ".">> }

\* n bytes "x" followed by the bytes of tail
Padded(n, tail) == [i \in 1..(n + Len(tail)) |-> IF i <= n THEN 120 ELSE tail[i - n]]

LContents ==
  { <<>>, <<120>>, <<0>>, <<120, 0, 120>>,
    Padded(SNIFF_LEN - 1, <<0>>), Padded(SNIFF_LEN, <<0>>), Padded(SNIFF_LEN + 1, <<>>) }

InitL ==
  /\ TextIdle
  /\ WalkerIdle
  /\ lName \in LNames
  /\ lBytes \in LContents
  /\ lOpen \in BOOLEAN
  /\ lRes = NoResult
  /\ lpc = "start"

Classify ==
  /\ lpc = "start"
  /\ lRes' = looks_text(lName, lBytes, lOpen)
  /\ lpc' = "done"
  /\ UNCHANGED <<lName, lBytes, lOpen, tvars, wvars>>

\* ---------------------------------------------------------------- text files
\* str.encode("utf-8") of one code point (never a surrogate: the text comes
\* from a strict decode)
Utf8EncodeChar(c) ==
  IF c < 128 THEN <<c>>
  ELSE IF c < 2048 THEN <<192 + (c \div 64), 128 + (c % 64)>>
  ELSE IF c < 65536 THEN <<224 + (c \div 4096), 128 + ((c \div 64) % 64), 128 + (c % 64)>>
  ELSE <<240 + (c \div 262144), 128 + ((c \div 4096) % 64), 128 + ((c \div 64) % 64),
         128 + (c % 64)>>

\* f.write(new_text) of a file opened with open(path, "w", encoding="utf-8")
\* on a platform whose os.linesep is "\n"
RECURSIVE EncodeFile(_)
EncodeFile(text) ==
  IF text = <<>> THEN <<>> ELSE Utf8EncodeChar(Head(text)) \o EncodeFile(Tail(text))

IsCont(b) == 128 <= b /\ b <= 191

\* bytes.decode("utf-8", errors="strict"): ok is FALSE for UnicodeDecodeError
RECURSIVE Utf8Decode(_)
Utf8Decode(bs) ==
  IF bs = <<>> THEN [ok |-> TRUE, text |-> <<>>]
  ELSE
    LET b == Head(bs)
        n == IF b < 128 THEN 1
             ELSE IF 194 <= b /\ b <= 223 THEN 2
             ELSE IF 224 <= b /\ b <= 239 THEN 3
             ELSE IF 240 <= b /\ b <= 244 THEN 4
             ELSE 0
    IN
    IF n = 0 \/ Len(bs) < n \/ (\E i \in 2..n : ~IsCont(bs[i]))
    THEN [ok |-> FALSE, text |-> <<>>]
    ELSE
      LET cp == IF n = 1 THEN b
                ELSE IF n = 2 THEN (b - 192) * 64 + (bs[2] - 128)
                ELSE IF n = 3 THEN (b - 224) * 4096 + (bs[2] - 128) * 64 + (bs[3] - 128)
                ELSE (b - 240) * 262144 + (bs[2] - 128) * 4096 + (bs[3] - 128) * 64
                     + (bs[4] - 128)
          valid == /\ (n = 3 => cp >= 2048 /\ ~(55296 <= cp /\ cp <= 57343))
                   /\ (n = 4 => cp >= 65536 /\ cp <= 1114111)
          rest == Utf8Decode(Drop(bs, n))
      IN
      IF valid /\ rest.ok THEN [ok |-> TRUE, text |-> <<cp>> \o rest.text]
      ELSE [ok |-> FALSE, text |-> <<>>]

\* universal newlines of a file opened in text mode: "\r\n" and "\r" read as "\n"
RECURSIVE TranslateNewlines(_)
TranslateNewlines(text) ==
  IF text = <<>> THEN <<>>
  ELSE IF Head(text) = 13
    THEN <<10>> \o TranslateNewlines(IF Len(text) >= 2 /\ text[2] = 10
                                     THEN Drop(text, 2) ELSE Tail(text))
  ELSE <<Head(text)>> \o TranslateNewlines(Tail(text))

\* with open(path, "r", encoding="utf-8", errors="strict") as f: text = f.read()
\* ioOk: the open and the read succeed
ReadText(bytes, ioOk) ==
  LET d == Utf8Decode(bytes) IN
  IF ioOk /\ d.ok THEN [ok |-> TRUE, text |-> TranslateNewlines(d.text)]
  ELSE [ok |-> FALSE, text |-> <<>>]

\* ---------------------------------------------------------------- the tree under ROOT
\* directory 0 is ROOT; ROOT has src, docs, node_modules and .cache,
\* src has tmp, node_modules has pkg
Dirs == 0..6

DirName ==
  [d \in Dirs |->
     CASE d = 0 -> <<"x", "l", "n">>
       [] d = 1 -> <<"s", "r", "c">>
       [] d = 2 -> <<"n", "o", "d", "e", "_", "m", "o", "d", "u", "l", "e", "s">>
       [] d = 3 -> <<".", "c", "a", "c", "h", "e">>
       [] d = 4 -> <<"t", "m", "p">>
       [] d = 5 -> <<"p", "k", "g">>
       [] d = 6 -> <<"d", "o", "c", "s">>]

DirParent == [d \in Dirs \ {0} |-> CASE d \in {1, 2, 3, 6} -> 0 [] d = 4 -> 1 [] d = 5 -> 2]

Files == 1..8

FileDir ==
  [f \in Files |->
     CASE f \in {1, 3} -> 0 [] f = 2 -> 1 [] f = 4 -> 2 [] f = 5 -> 5
       [] f = 6 -> 4 [] f = 7 -> 3 [] f = 8 -> 6]

SubDirs(d) == {e \in Dirs \ {0} : DirParent[e] = d}
FilesIn(d) == {f \in Files : FileDir[f] = d}

RocketVs == <<240, 159, 154, 128, 239, 184, 143>>   \* U+1F680 U+FE0F

FreeNames ==
  { <<"a", ".", "m", "d">>, <<"a", ".", "P", "N", "G">>, <<"a", ".", "d", "a", "t">> }

FreeContents ==
  { <<120>>,                         \* "x"
    RocketVs,
    <<255>>,                         \* not UTF-8
    <<0, 240, 159, 154, 128>>,       \* NUL, U+1F680
    <<239, 184, 143, 13, 10>>,       \* U+FE0F, "\r\n"
    <<120, 13, 10>> }                \* "x\r\n"

\* files 1 (in ROOT) and 2 (in src) are arbitrary; file 3 is ROOT/c.md;
\* files 4..7 are e.md in node_modules, node_modules/pkg, src/tmp and .cache;
\* file 8 is docs/v.txt
FixedName(f) ==
  CASE f = 3 -> <<"c", ".", "m", "d">>
    [] f = 8 -> <<"v", ".", "t", "x", "t">>
    [] OTHER -> <<"e", ".", "m", "d">>

FixedContent(f) ==
  CASE f = 3 -> <<240, 159, 154, 128>>
    [] f = 8 -> <<120>>
    [] OTHER -> RocketVs

\* ---------------------------------------------------------------- main
StartsWithDot(d) == Len(d) >= 1 /\ d[1] = "."

\* the two conditions of the filter joined by `or'
Prune_or(dirs) == {d \in dirs : DirName[d] \notin EXCLUDE_DIRS \/ ~StartsWithDot(DirName[d])}

\* dirs[:] = [d for d in dirs if d not in EXCLUDE_DIRS and not d.startswith(".")]
Prune(dirs) == {d \in dirs : DirName[d] \notin EXCLUDE_DIRS /\ ~StartsWithDot(DirName[d])}

\* the orders in which a directory listing can return a set of entries
Orders(S) == {s \in [1..Cardinality(S) -> S] : \A i, j \in DOMAIN s : i # j => s[i] # s[j]}

InitW ==
  /\ \E n1, n2 \in FreeNames :
       fname = [f \in Files |-> IF f = 1 THEN n1 ELSE IF f = 2 THEN n2 ELSE FixedName(f)]
  /\ \E c1, c2 \in FreeContents :
       content = [f \in Files |-> IF f = 1 THEN c1 ELSE IF f = 2 THEN c2 ELSE FixedContent(f)]
  /\ content0 = content
  /\ stack = <<0>>
  /\ curFiles = {}
  /\ pc = "walk"
  /\ scanned = 0
  /\ changed = 0
  /\ output = <<>>
  /\ exitStatus = -1
  /\ classified = {} /\ accepted = {} /\ sniffed = {} /\ openedRead = {}
  /\ decoded = {} /\ readFailed = {} /\ openedWrite = {} /\ written = {}
  /\ writeFailed = {}

\* one step of os.walk(ROOT): the next directory is listed, its
\* subdirectories are pruned and queued ahead of the directories still to visit
WalkDir ==
  /\ pc = "walk"
  /\ stack # <<>>
  /\ \E order \in Orders(Prune(SubDirs(Head(stack)))) :
       stack' = order \o Tail(stack)
  /\ curFiles' = FilesIn(Head(stack))
  /\ pc' = "files"
  /\ UNCHANGED <<fname, content, content0, scanned, changed, output, exitStatus,
                 classified, accepted, sniffed, openedRead, decoded, readFailed,
                 openedWrite, written, writeFailed,
                 tvars, lvars>>

\* the history of a call looks_text(path) with result lt
Classified(f, lt) ==
  /\ classified' = classified \cup {f}
  /\ sniffed' = IF lt.opened THEN sniffed \cup {f} ELSE sniffed
  /\ accepted' = IF lt.res THEN accepted \cup {f} ELSE accepted

\* if not looks_text(path): continue
Reject(f) ==
  /\ pc = "files"
  /\ f \in curFiles
  /\ \E sniffOk \in BOOLEAN :
       LET lt == looks_text(fname[f], content[f], sniffOk) IN
       /\ ~lt.res
       /\ Classified(f, lt)
  /\ curFiles' = curFiles \ {f}
  /\ UNCHANGED <<fname, content, content0, stack, pc, scanned, changed, output,
                 exitStatus, openedRead, decoded, readFailed, openedWrite, written,
                 writeFailed,
                 tvars, lvars>>

\* the file is counted as scanned before the read is tried
ReadFail_counted(f) ==
  /\ pc = "files"
  /\ f \in curFiles
  /\ \E sniffOk, readOk \in BOOLEAN :
       LET lt == looks_text(fname[f], content[f], sniffOk)
           rd == ReadText(content[f], readOk)
       IN
       /\ lt.res
       /\ ~rd.ok
       /\ Classified(f, lt)
  /\ openedRead' = openedRead \cup {f}
  /\ readFailed' = readFailed \cup {f}
  /\ scanned' = scanned + 1
  /\ curFiles' = curFiles \ {f}
  /\ UNCHANGED <<fname, content, content0, stack, pc, changed, output,
                 exitStatus, decoded, openedWrite, written, writeFailed,
                 tvars, lvars>>

\* except Exception: continue
ReadFail(f) ==
  /\ pc = "files"
  /\ f \in curFiles
  /\ \E sniffOk, readOk \in BOOLEAN :
       LET lt == looks_text(fname[f], content[f], sniffOk)
           rd == ReadText(content[f], readOk)
       IN
       /\ lt.res
       /\ ~rd.ok
       /\ Classified(f, lt)
  /\ openedRead' = openedRead \cup {f}
  /\ readFailed' = readFailed \cup {f}
  /\ curFiles' = curFiles \ {f}
  /\ UNCHANGED <<fname, content, content0, stack, pc, scanned, changed, output,
                 exitStatus, decoded, openedWrite, written, writeFailed,
                 tvars, lvars>>

\* the file is written back whether or not the text changed
Keep_written(f) ==
  /\ pc = "files"
  /\ f \in curFiles
  /\ \E sniffOk \in BOOLEAN :
       LET lt == looks_text(fname[f], content[f], sniffOk)
           rd == ReadText(content[f], TRUE)
       IN
       /\ lt.res
       /\ rd.ok
       /\ replace_in_text(rd.text) = rd.text
       /\ Classified(f, lt)
  /\ openedRead' = openedRead \cup {f}
  /\ decoded' = decoded \cup {f}
  /\ scanned' = scanned + 1
  /\ openedWrite' = openedWrite \cup {f}
  /\ written' = written \cup {f}
  /\ changed' = changed + 1
  /\ curFiles' = curFiles \ {f}
  /\ UNCHANGED <<fname, content, content0, stack, pc, output, exitStatus,
                 readFailed, writeFailed,
                 tvars, lvars>>

\* new_text == text: scanned += 1 and nothing else
Keep(f) ==
  /\ pc = "files"
  /\ f \in curFiles
  /\ \E sniffOk \in BOOLEAN :
       LET lt == looks_text(fname[f], content[f], sniffOk)
           rd == ReadText(content[f], TRUE)
       IN
       /\ lt.res
       /\ rd.ok
       /\ replace_in_text(rd.text) = rd.text
       /\ Classified(f, lt)
  /\ openedRead' = openedRead \cup {f}
  /\ decoded' = decoded \cup {f}
  /\ scanned' = scanned + 1
  /\ curFiles' = curFiles \ {f}
  /\ UNCHANGED <<fname, content, content0, stack, pc, changed, output, exitStatus,
                 readFailed, openedWrite, written, writeFailed,
                 tvars, lvars>>

\* new_text != text and the write succeeds
Rewrite(f) ==
  /\ pc = "files"
  /\ f \in curFiles
  /\ \E sniffOk \in BOOLEAN :
       LET lt == looks_text(fname[f], content[f], sniffOk)
           rd == ReadText(content[f], TRUE)
           new_text == replace_in_text(rd.text)
       IN
       /\ lt.res
       /\ rd.ok
       /\ new_text # rd.text
       /\ Classified(f, lt)
       /\ content' = [content EXCEPT ![f] = EncodeFile(new_text)]
  /\ openedRead' = openedRead \cup {f}
  /\ decoded' = decoded \cup {f}
  /\ scanned' = scanned + 1
  /\ openedWrite' = openedWrite \cup {f}
  /\ written' = written \cup {f}
  /\ changed' = changed + 1
  /\ output' = Append(output, [line |-> "Rewrote", file |-> f, changed |-> 0, scanned |-> 0])
  /\ curFiles' = curFiles \ {f}
  /\ UNCHANGED <<fname, content0, stack, pc, exitStatus, readFailed, writeFailed,
                 tvars, lvars>>

\* the failure of the write is caught and the loop goes on
WriteFail_caught(f) ==
  /\ pc = "files"
  /\ f \in curFiles
  /\ \E sniffOk \in BOOLEAN :
       LET lt == looks_text(fname[f], content[f], sniffOk)
           rd == ReadText(content[f], TRUE)
           new_text == replace_in_text(rd.text)
           new_bytes == EncodeFile(new_text)
       IN
       /\ lt.res
       /\ rd.ok
       /\ new_text # rd.text
       /\ Classified(f, lt)
       /\ \E left \in {content[f]} \cup {SubSeq(new_bytes, 1, n) : n \in 0..Min(1, Len(new_bytes))} :
            content' = [content EXCEPT ![f] = left]
  /\ openedRead' = openedRead \cup {f}
  /\ decoded' = decoded \cup {f}
  /\ scanned' = scanned + 1
  /\ openedWrite' = openedWrite \cup {f}
  /\ writeFailed' = writeFailed \cup {f}
  /\ curFiles' = curFiles \ {f}
  /\ UNCHANGED <<fname, content0, stack, pc, exitStatus, changed, output, readFailed,
                 written,
                 tvars, lvars>>

\* new_text != text and open(path, "w") or f.write raises: the exception
\* leaves main, the interpreter exits with status 1.  The file keeps its
\* bytes when the open failed; otherwise it is left truncated, empty or with
\* the first of the new bytes
WriteFail(f) ==
  /\ pc = "files"
  /\ f \in curFiles
  /\ \E sniffOk \in BOOLEAN :
       LET lt == looks_text(fname[f], content[f], sniffOk)
           rd == ReadText(content[f], TRUE)
           new_text == replace_in_text(rd.text)
           new_bytes == EncodeFile(new_text)
       IN
       /\ lt.res
       /\ rd.ok
       /\ new_text # rd.text
       /\ Classified(f, lt)
       /\ \E left \in {content[f]} \cup {SubSeq(new_bytes, 1, n) : n \in 0..Min(1, Len(new_bytes))} :
            content' = [content EXCEPT ![f] = left]
  /\ openedRead' = openedRead \cup {f}
  /\ decoded' = decoded \cup {f}
  /\ scanned' = scanned + 1
  /\ openedWrite' = openedWrite \cup {f}
  /\ writeFailed' = writeFailed \cup {f}
  /\ pc' = "aborted"
  /\ exitStatus' = 1
  /\ UNCHANGED <<fname, content0, stack, curFiles, changed, output, readFailed, written,
                 tvars, lvars>>

\* the loop over the files of the directory is over
EndDir ==
  /\ pc = "files"
  /\ curFiles = {}
  /\ pc' = "walk"
  /\ UNCHANGED <<fname, content, content0, stack, curFiles, scanned, changed, output,
                 exitStatus, classified, accepted, sniffed, openedRead, decoded,
                 readFailed, openedWrite, written, writeFailed,
                 tvars, lvars>>

\* print(f"Done. ..."); return 0; raise SystemExit(0)
Finish ==
  /\ pc = "walk"
  /\ stack = <<>>
  /\ output' = Append(output, [line |-> "Done", file |-> 0, changed |-> changed,
                               scanned |-> scanned])
  /\ exitStatus' = 0
  /\ pc' = "done"
  /\ UNCHANGED <<fname, content, content0, stack, curFiles, scanned, changed,
                 classified, accepted, sniffed, openedRead, decoded, readFailed,
                 openedWrite, written, writeFailed,
                 tvars, lvars>>

\* ---------------------------------------------------------------- specifications
Next ==
  \/ WalkDir
  \/ \E f \in Files : Reject(f)
  \/ \E f \in Files : ReadFail(f)
  \/ \E f \in Files : Keep(f)
  \/ \E f \in Files : Rewrite(f)
  \/ \E f \in Files : WriteFail(f)
  \/ EndDir
  \/ Finish

Init == InitW /\ TextIdle /\ ClassIdle
Spec == Init /\ [][Next]_vars

NextT == Apply1 \/ Apply2
SpecT == InitT /\ [][NextT]_vars

NextL == Classify
SpecL == InitL /\ [][NextL]_vars

\* ---------------------------------------------------------------- vocabulary of the properties
Range(s) == {s[i] : i \in DOMAIN s}

\* the pictographic ranges as the specification lists them
InListedRanges(c) ==
  \/ c \in 126976..129791     \* U+1F000-U+1FAFF
  \/ c \in 9728..10175        \* U+2600-U+27BF
  \/ c \in 8960..9215         \* U+2300-U+23FF
  \/ c \in 8592..8703         \* U+2190-U+21FF
  \/ c = 8482 \/ c = 8505     \* U+2122, U+2139

TableKeys == {MAP[i][1] : i \in DOMAIN MAP}

\* "[" + the uppercased alphanumeric characters of the first word of the
\* name + "]", and "[SYM]" without a name or with an empty token
TokenOfName(c) ==
  LET name == UnicodeName(c)
      token == IF name = NoName THEN <<>> ELSE AlnumUpper(FirstWord(name))
  IN <<91>> \o (IF token = <<>> THEN <<83, 89, 77>> ELSE token) \o <<93>>

\* the output is the output for the text before position i, then piece,
\* then the output for the text after position i
EmittedInPlace(i, piece) ==
  tOut = replace_in_text(SubSeq(tIn, 1, i - 1)) \o piece
           \o replace_in_text(SubSeq(tIn, i + 1, Len(tIn)))

\* no Removal Set character, no key of the table as a substring, no
\* pictographic character
NoTargets(text) ==
  /\ \A i \in DOMAIN text : text[i] # 65039 /\ ~InListedRanges(text[i])
  /\ \A k \in TableKeys : ~Contains(text, k)

\* ---------------------------------------------------------------- properties of replace_in_text
\* C1: replace_in_text is idempotent: applying it to its own output gives
\* that output again, for every text
C1_Idempotent == tpc = "twice" => tOut2 = tOut

C1_Witness ==
  /\ tpc = "twice"
  /\ {65039, 128640, 127020} \subseteq Range(tIn)
  /\ 91 \in Range(tOut)
  /\ tOut2 = tOut

\* C2 as stated: every pictographic character that is not a key of the table
\* is replaced in place by the token of its name, by "[SYM]" when it has no
\* name, and never appears in the output
C2_Original ==
  tpc = "once" =>
    \A i \in DOMAIN tIn :
      InListedRanges(tIn[i]) /\ <<tIn[i]>> \notin TableKeys =>
        /\ EmittedInPlace(i, TokenOfName(tIn[i]))
        /\ tIn[i] \notin Range(tOut)

\* C2 amended: a pictographic character that is not a key of the table and
\* has a Unicode name is replaced in place by the token of its name ("[SYM]"
\* when the token is empty) and does not appear in the output; one without a
\* Unicode name is emitted unchanged
C2_FallbackToken ==
  tpc = "once" =>
    \A i \in DOMAIN tIn :
      InListedRanges(tIn[i]) /\ <<tIn[i]>> \notin TableKeys =>
        IF UnicodeName(tIn[i]) = NoName
        THEN EmittedInPlace(i, <<tIn[i]>>)
        ELSE /\ EmittedInPlace(i, TokenOfName(tIn[i]))
             /\ tIn[i] \notin Range(tOut)

C2_Witness ==
  /\ tpc = "once"
  /\ {128231, 127020} \subseteq Range(tIn)
  /\ Contains(tOut, <<91, 69, 77, 65, 73, 76, 93>>)    \* "[EMAIL]"
  /\ 127020 \in Range(tOut)

\* C3: the output of replace_in_text contains no U+FE0F, wherever and however
\* often it occurs in the input
C3_NoVariationSelector ==
  /\ tpc \in {"once", "twice"} => 65039 \notin Range(tOut)
  /\ tpc = "twice" => 65039 \notin Range(tOut2)

C3_Witness ==
  /\ tpc = "once"
  /\ Cardinality({i \in DOMAIN tIn : tIn[i] = 65039}) >= 2
  /\ tIn[1] # 65039
  /\ tOut # <<>>

\* C4: a text without Removal Set character, key of the table and
\* pictographic character is returned unchanged
C4_PassThrough == tpc # "start" /\ NoTargets(tIn) => tOut = tIn

C4_Witness ==
  /\ tpc = "once"
  /\ NoTargets(tIn)
  /\ {45, 120} \subseteq Range(tIn)
  /\ tOut = tIn

\* ---------------------------------------------------------------- properties of looks_text
\* C9: looks_text decides in a fixed order: an allow-list extension
\* (case-insensitive) is eligible whatever the content and whether or not the
\* file can be read; otherwise a deny-list extension is not eligible;
\* otherwise the file is eligible exactly when reading it succeeds and its
\* first 2048 bytes contain no NUL byte
C9_LooksTextOrder ==
  lpc = "done" =>
    LET ext == Lower(splitext(lName)) IN
    IF ext \in TEXT_EXTS THEN lRes.res
    ELSE IF ext \in bin_exts THEN ~lRes.res
    ELSE lRes.res <=> (lOpen /\ \A i \in 1..Len(lBytes) : i <= 2048 => lBytes[i] # 0)

C9_Witness ==
  /\ lpc = "done"
  /\ Lower(splitext(lName)) \notin TEXT_EXTS \cup bin_exts
  /\ lOpen
  /\ Len(lBytes) = 2049
  /\ lBytes[2049] = 0
  /\ lRes.res

\* ---------------------------------------------------------------- properties of main
\* the directories from d up to, not including, ROOT
RECURSIVE DirChain(_)
DirChain(d) == IF d = 0 THEN {} ELSE {d} \cup DirChain(DirParent[d])

\* a directory name of the Exclusion Set, or one that starts with a dot
ExcludedName(n) == n \in EXCLUDE_DIRS \/ (n # <<>> /\ n[1] = ".")

UnderExcluded(f) == \E d \in DirChain(FileDir[f]) : ExcludedName(DirName[d])

RewroteLines(f) == {i \in DOMAIN output : output[i].line = "Rewrote" /\ output[i].file = f}

DoneLines == {i \in DOMAIN output : output[i].line = "Done"}

\* the file as it was before the run is text that the transformer changes
Differs0(f) ==
  LET rd == ReadText(content0[f], TRUE) IN rd.ok /\ replace_in_text(rd.text) # rd.text

\* the bytes of the file before the run, transformed
Transformed0(f) == EncodeFile(replace_in_text(ReadText(content0[f], TRUE).text))

Untouched(f) ==
  /\ f \notin sniffed \cup openedRead \cup decoded \cup readFailed \cup openedWrite \cup written
  /\ RewroteLines(f) = {}
  /\ content[f] = content0[f]

\* C5: a file under a subdirectory whose name is in the Exclusion Set or
\* starts with a dot, at any depth, is never classified, read, counted or
\* written, and keeps its content
C5_ExcludedUntouched ==
  \A f \in Files : UnderExcluded(f) => f \notin classified /\ Untouched(f)

C5_Witness ==
  /\ pc = "done"
  /\ written # {}
  /\ \A f \in {4, 5, 6, 7} :
       /\ UnderExcluded(f)
       /\ looks_text(fname[f], content[f], TRUE).res
       /\ Differs0(f)

\* C6: a file is rewritten exactly when it is reached, accepted by the
\* classifier, read as strict UTF-8 and changed by the transformer; a file
\* whose transformed text equals its text is never opened for writing; at
\* the end scanned and changed count the files read and the files
\* rewritten, and changed <= scanned throughout
C6_RewriteIff ==
  /\ changed <= scanned
  /\ \A f \in openedWrite : Differs0(f)
  /\ \A f \in written :
       /\ ~UnderExcluded(f) /\ f \in accepted /\ f \in decoded /\ Differs0(f)
       /\ content[f] = Transformed0(f)
  /\ pc = "done" =>
       /\ \A f \in Files :
            f \in written <=>
              ~UnderExcluded(f) /\ f \in accepted /\ f \in decoded /\ Differs0(f)
       /\ classified = {f \in Files : ~UnderExcluded(f)}
       /\ scanned = Cardinality(decoded)
       /\ changed = Cardinality(written)
       /\ output[Len(output)] = [line |-> "Done", file |-> 0, changed |-> changed,
                                  scanned |-> scanned]

C6_Witness ==
  /\ pc = "done"
  /\ changed = 2
  /\ scanned = 4
  /\ \E f \in decoded : ~Differs0(f) /\ content0[f] = <<120, 13, 10>>

\* C7: a file that cannot be read as strict UTF-8 text is skipped: the step
\* changes no counter, no file and no output, and the traversal goes on with
\* the files that remain
C7_SkipUnreadable ==
  /\ [][\A f \in Files :
          f \in readFailed' /\ f \notin readFailed =>
            /\ scanned' = scanned /\ changed' = changed
            /\ content' = content /\ output' = output
            /\ openedWrite' = openedWrite /\ written' = written /\ decoded' = decoded
            /\ pc' = "files" /\ stack' = stack /\ curFiles' = curFiles \ {f}]_vars
  /\ [](\A f \in readFailed :
          /\ f \notin decoded \cup openedWrite \cup written
          /\ RewroteLines(f) = {}
          /\ content[f] = content0[f])
  /\ [](pc = "done" =>
          /\ scanned = Cardinality({f \in classified : f \in accepted /\ f \notin readFailed})
          /\ \A f \in Files \ readFailed :
               content[f] = IF f \in decoded /\ Differs0(f) THEN Transformed0(f)
                            ELSE content0[f])

C7_Witness ==
  /\ pc = "done"
  /\ 1 \in readFailed
  /\ content0[1] = <<255>>
  /\ {2, 3} \subseteq written

\* C8: a file whose extension, compared case-insensitively, is in the binary
\* deny-list is never opened, neither for sniffing nor as text, is not
\* counted and keeps its bytes
C8_BinaryUntouched ==
  \A f \in Files :
    Lower(splitext(fname[f])) \in bin_exts => f \notin accepted /\ Untouched(f)

C8_Witness ==
  /\ pc = "done"
  /\ fname[1] = <<"a", ".", "P", "N", "G">>
  /\ content0[1] = <<240, 159, 154, 128, 239, 184, 143>>
  /\ 1 \in classified
  /\ written # {}

\* C10: a failure while rewriting a file aborts the run: nothing happens
\* after it, the summary line is not printed, the exit status is not 0, and
\* the files rewritten before it keep their new content
C10_WriteFailureAborts ==
  /\ [][writeFailed = {}]_vars
  /\ [](writeFailed # {} =>
          /\ pc = "aborted"
          /\ DoneLines = {}
          /\ exitStatus # 0 /\ exitStatus # -1
          /\ \A f \in written : content[f] = Transformed0(f)
          /\ \A f \in Files \ classified : Untouched(f))

C10_Witness ==
  /\ pc = "aborted"
  /\ written # {}
  /\ Files \ (classified \cup {4, 5, 6, 7}) # {}

====
